---- MODULE Spec2Model ----
(***************************************************************************)
(* Model of the county census dataset builder (gen_county_data.py) and of  *)
(* the query layer that reads its output (backend.py).                     *)
(*                                                                         *)
(* Text is modelled as a sequence of tokens, a nullable number as a        *)
(* sequence of length 0 (NA) or 1, a dataframe as a sequence of records.   *)
(***************************************************************************)
EXTENDS Integers, Sequences, FiniteSets, TLC

(* ------------------------------------------------------------------ *)
(* Bounds                                                              *)
(* ------------------------------------------------------------------ *)

\* number of (county, year) observations the provider holds, at most
MaxRows == 4

\* length of the surveyed period before ACS1_END_YEAR (17 in the source)
YearSpan == 3

(* ------------------------------------------------------------------ *)
(* Values                                                              *)
(* ------------------------------------------------------------------ *)

NA == <<>>

Some(v) == <<v>>

\* pd.isna
IsNa(x) == x = NA

Val(x) == x[1]

(* ------------------------------------------------------------------ *)
(* gen_county_data.py: configuration                                   *)
(* ------------------------------------------------------------------ *)

ACS1_END_YEAR == 2022

ACS1_START_YEAR == ACS1_END_YEAR - YearSpan

ACS1_SKIP_YEARS == {2020}

RefYearA == 2019

RefYearB == 2021

\* years = [year for year in range(START, END + 1) if year not in SKIP]
years ==
  LET all == [k \in 1..(ACS1_END_YEAR - ACS1_START_YEAR + 1) |-> ACS1_START_YEAR + k - 1]
      Keep(y) == y \notin ACS1_SKIP_YEARS
  IN  SelectSeq(all, Keep)

YearSet == {years[k] : k \in 1..Len(years)}

(* ------------------------------------------------------------------ *)
(* The census provider (censusdis): what ced.download returns          *)
(* ------------------------------------------------------------------ *)

StateNames == <<"Alabama", "Ohio">>

\* the counties the provider knows about: one county of each state
Counties == 1..Len(StateNames)

CountyNames == <<"Adams County", "Baker County", "Clark County">>

StateCodes == <<(<<0, 1>>), (<<3, 9>>)>>

\* county c lies in state 1 when c is odd, in state 2 when c is even
StateIdx(c) == 2 - (c % 2)

CountyIdx(c) == (c + 1) \div 2

\* the STATE column: two digits
StateCode(c) == StateCodes[StateIdx(c)]

\* the COUNTY column: three digits
CountyCode(c) == <<0, 0, CountyIdx(c)>>

\* the NAME column: "<county>, <state>"
NameOf(c) == <<CountyNames[CountyIdx(c)], ", ", StateNames[StateIdx(c)]>>

Slots == Counties \X YearSet

\* the two work-from-home source fields of one observation
WfhFields == [B08006_021E : {NA, Some(1)}, B08006_017E : {NA, Some(2)}]

\* w is a world the provider may hold: at most MaxRows observations, one at
\* most per county and year
IsWorld(w) ==
  \E S \in SUBSET Slots :
    /\ Cardinality(S) <= MaxRows
    /\ w \in [S -> WfhFields]

\* the order in which the provider lists counties: not the order of the codes
RECURSIVE SeqOfSet(_)
SeqOfSet(S) ==
  IF S = {} THEN <<>>
  ELSE LET m == CHOOSE x \in S : \A y \in S : x >= y
       IN  <<m>> \o SeqOfSet(S \ {m})

\* ced.download(vintage = y, download_variables = vars + NAME): one row per
\* county the provider holds for that year
Download(w, y) ==
  LET present == SeqOfSet({c \in Counties : <<c, y>> \in DOMAIN w})
  IN  [k \in 1..Len(present) |->
         [STATE |-> StateCode(present[k]),
          COUNTY |-> CountyCode(present[k]),
          NAME |-> NameOf(present[k]),
          B08006_021E |-> w[<<present[k], y>>].B08006_021E,
          B08006_017E |-> w[<<present[k], y>>].B08006_017E]]

\* ced.download(vintage = y, download_variables = 'NAME')
DownloadNames(w, y) ==
  LET rows == Download(w, y)
  IN  [k \in 1..Len(rows) |-> [NAME |-> rows[k].NAME]]

(* ------------------------------------------------------------------ *)
(* gen_county_data.py: the steps                                       *)
(* ------------------------------------------------------------------ *)

\* str.split(sep): the pieces of a token sequence between separators
RECURSIVE Split(_, _)
Split(s, sep) ==
  IF \A k \in 1..Len(s) : s[k] # sep THEN <<s>>
  ELSE LET p == CHOOSE k \in 1..Len(s) : s[k] = sep /\ \A j \in 1..(k - 1) : s[j] # sep
       IN  <<SubSeq(s, 1, p - 1)>> \o Split(SubSeq(s, p + 1, Len(s)), sep)

\* lines 72-76: COUNTY_NAME, STATE_NAME and YEAR are added to a downloaded row
AddColumns(row, y) ==
  [STATE |-> row.STATE,
   COUNTY |-> row.COUNTY,
   NAME |-> row.NAME,
   B08006_021E |-> row.B08006_021E,
   B08006_017E |-> row.B08006_017E,
   COUNTY_NAME |-> Split(row.NAME, ", ")[1],
   STATE_NAME |-> Split(row.NAME, ", ")[2],
   YEAR |-> y]

\* lines 64-76
NewFrame(w, y) ==
  LET rows == Download(w, y)
  IN  [k \in 1..Len(rows) |-> AddColumns(rows[k], y)]

\* lines 103-105
NamesOf(rows) == {rows[k].NAME : k \in 1..Len(rows)}

\* the counties of either reference year
names_of_counties_in_either(n2019, n2021) == n2019 \cup n2021

names_of_counties_in_both(n2019, n2021) == n2019 \cap n2021

\* line 109
FilterStable(rows, names) ==
  LET Keep(r) == r.NAME \in names
  IN  SelectSeq(rows, Keep)

\* lexicographic order of two digit strings of equal length
RECURSIVE LexLess(_, _)
LexLess(a, b) ==
  IF a = <<>> \/ b = <<>> THEN a = <<>> /\ b # <<>>
  ELSE IF Head(a) # Head(b) THEN Head(a) < Head(b)
  ELSE LexLess(Tail(a), Tail(b))

\* an order with the years descending
RowLessYearDesc(r, s) ==
  \/ LexLess(r.STATE, s.STATE)
  \/ r.STATE = s.STATE /\ LexLess(r.COUNTY, s.COUNTY)
  \/ r.STATE = s.STATE /\ r.COUNTY = s.COUNTY /\ r.YEAR > s.YEAR

\* the order of sort_values(['STATE', 'COUNTY', 'YEAR'])
RowLess(r, s) ==
  \/ LexLess(r.STATE, s.STATE)
  \/ r.STATE = s.STATE /\ LexLess(r.COUNTY, s.COUNTY)
  \/ r.STATE = s.STATE /\ r.COUNTY = s.COUNTY /\ r.YEAR < s.YEAR

RECURSIVE InsertRow(_, _)
InsertRow(sorted, r) ==
  IF sorted = <<>> THEN <<r>>
  ELSE IF RowLess(r, Head(sorted)) THEN <<r>> \o sorted
  ELSE <<Head(sorted)>> \o InsertRow(Tail(sorted), r)

\* line 114
RECURSIVE SortRows(_)
SortRows(rows) ==
  IF rows = <<>> THEN <<>>
  ELSE InsertRow(SortRows(SubSeq(rows, 1, Len(rows) - 1)), rows[Len(rows)])

\* no assertion
SpliceAssertOff(row) == TRUE

\* an assertion that exactly one of the two fields has data
SpliceAssertExactlyOne(row) == IsNa(row.B08006_021E) # IsNa(row.B08006_017E)

\* line 124: the assertion of splice_wfh_columns
SpliceAssert(row) == IsNa(row.B08006_021E) \/ IsNa(row.B08006_017E)

\* lines 127-130
splice_wfh_columns(row) ==
  IF ~IsNa(row.B08006_021E) THEN row.B08006_021E ELSE row.B08006_017E

\* lines 132-134: the merged column replaces the two source columns
SpliceRow(row) ==
  [STATE |-> row.STATE,
   COUNTY |-> row.COUNTY,
   NAME |-> row.NAME,
   COUNTY_NAME |-> row.COUNTY_NAME,
   STATE_NAME |-> row.STATE_NAME,
   YEAR |-> row.YEAR,
   TotalWorkedFromHome |-> splice_wfh_columns(row)]

\* lines 140-151: the columns kept, and FIPS = STATE + COUNTY
OutputRow(row) ==
  [STATE_NAME |-> row.STATE_NAME,
   COUNTY_NAME |-> row.COUNTY_NAME,
   YEAR |-> row.YEAR,
   TotalWorkedFromHome |-> row.TotalWorkedFromHome,
   FIPS |-> row.STATE \o row.COUNTY]

(* ------------------------------------------------------------------ *)
(* county_data.csv                                                     *)
(* ------------------------------------------------------------------ *)

NoFile == [exists |-> FALSE, rows |-> <<>>]

\* to_csv('county_data.csv', index=False)
ToCsv(rows) == [exists |-> TRUE, rows |-> rows]

\* a table left by an earlier run
OldFile ==
  ToCsv(<<[STATE_NAME |-> <<"Alabama">>, COUNTY_NAME |-> <<"Adams County">>,
           YEAR |-> RefYearA, TotalWorkedFromHome |-> Some(1),
           FIPS |-> <<0, 1, 0, 0, 1>>]>>)

\* read_csv infers the type of a column of digits: an integer
RECURSIVE ParseInt(_)
ParseInt(digits) ==
  IF digits = <<>> THEN 0
  ELSE 10 * ParseInt(SubSeq(digits, 1, Len(digits) - 1)) + digits[Len(digits)]

\* pd.read_csv('county_data.csv')
ReadCsv(f) ==
  [k \in 1..Len(f.rows) |->
     [STATE_NAME |-> f.rows[k].STATE_NAME,
      COUNTY_NAME |-> f.rows[k].COUNTY_NAME,
      YEAR |-> f.rows[k].YEAR,
      TotalWorkedFromHome |-> f.rows[k].TotalWorkedFromHome,
      FIPS |-> ParseInt(f.rows[k].FIPS)]]

(* ------------------------------------------------------------------ *)
(* backend.py: queries on the loaded table                             *)
(* ------------------------------------------------------------------ *)

\* get_census_data(state_name, county_name, var), var = the merged column
get_census_data(table, state_name, county_name) ==
  LET Match(r) == r.STATE_NAME = state_name /\ r.COUNTY_NAME = county_name
      hit == SelectSeq(table, Match)
  IN  [k \in 1..Len(hit) |->
         [STATE_NAME |-> hit[k].STATE_NAME,
          COUNTY_NAME |-> hit[k].COUNTY_NAME,
          YEAR |-> hit[k].YEAR,
          TotalWorkedFromHome |-> hit[k].TotalWorkedFromHome]]

(* ------------------------------------------------------------------ *)
(* State                                                               *)
(* ------------------------------------------------------------------ *)

VARIABLES
  pc,                      \* position of the builder script
  abort,                   \* why the builder run ended early, "" if it did not
  world,                   \* the observations the provider holds
  file,                    \* county_data.csv
  startFile,               \* county_data.csv when the run started
  idx,                     \* position of the loop over years
  df_county_data,          \* the builder's dataframe
  names_of_counties_2019,
  names_of_counties_2021,
  calls,                   \* provider calls that have returned
  writes,                  \* executions of to_csv
  svc,                     \* the query process: "down", "up" or "failed"
  df,                      \* backend.df, the table loaded at import
  asked,                   \* the county of the last get_census_data call, 0 if none
  series,                  \* the last result of get_census_data
  census_vars,             \* the label configuration (values of the mapping)
  labels,                  \* the last result of get_unique_census_labels
  column,                  \* the column of the last get_ranking_df call
  ranking                  \* the last result of get_ranking_df

vars == <<pc, abort, world, file, startFile, idx, df_county_data,
          names_of_counties_2019, names_of_counties_2021, calls, writes,
          svc, df, asked, series, census_vars, labels, column, ranking>>

builderVars == <<pc, abort, world, file, startFile, idx, df_county_data,
                 names_of_counties_2019, names_of_counties_2021, calls, writes>>

queryVars == <<svc, df, asked, series>>

labelVars == <<census_vars, labels>>

rankVars == <<column, ranking>>

(* ------------------------------------------------------------------ *)
(* The builder run followed by the query process                       *)
(* ------------------------------------------------------------------ *)

Init ==
  /\ pc = "import"
  /\ abort = ""
  /\ IsWorld(world)
  /\ file \in {NoFile, OldFile}
  /\ startFile = file
  /\ idx = 1
  /\ df_county_data = <<>>
  /\ names_of_counties_2019 = {}
  /\ names_of_counties_2021 = {}
  /\ calls = 0
  /\ writes = 0
  /\ svc = "down"
  /\ df = <<>>
  /\ asked = 0
  /\ series = <<>>
  /\ census_vars = <<>>
  /\ labels = <<>>
  /\ column = ""
  /\ ranking = [error |-> FALSE, rows |-> <<>>]

\* a script that does not import backend
ImportWithoutBackend ==
  /\ pc = "import"
  /\ pc' = "download"
  /\ UNCHANGED <<abort, world, file, startFile, idx, df_county_data,
                 names_of_counties_2019, names_of_counties_2021, calls, writes>>
  /\ UNCHANGED <<queryVars, labelVars, rankVars>>

\* gen_county_data.py lines 33-40: importing backend runs
\* df = pd.read_csv('county_data.csv'), which raises when the file is missing.
\* df stands for backend.df of whichever process imported backend last.
Import ==
  /\ pc = "import"
  /\ IF file.exists
       THEN /\ df' = ReadCsv(file)
            /\ pc' = "download"
            /\ abort' = abort
       ELSE /\ df' = df
            /\ pc' = "aborted"
            /\ abort' = "import"
  /\ UNCHANGED <<world, file, startFile, idx, df_county_data,
                 names_of_counties_2019, names_of_counties_2021, calls, writes>>
  /\ UNCHANGED <<svc, asked, series, labelVars, rankVars>>

\* lines 56-81: one iteration of the loop over years
DownloadYear ==
  /\ pc = "download"
  /\ idx <= Len(years)
  /\ df_county_data' = df_county_data \o NewFrame(world, years[idx])
  /\ idx' = idx + 1
  /\ calls' = calls + 1
  /\ pc' = IF idx = Len(years) THEN "ref2019" ELSE "download"
  /\ UNCHANGED <<abort, world, file, startFile,
                 names_of_counties_2019, names_of_counties_2021, writes>>
  /\ UNCHANGED <<queryVars, labelVars, rankVars>>

\* a handler that swallows the exception of ced.download and goes on
FetchFailIgnored ==
  /\ pc \in {"download", "ref2019", "ref2021"}
  /\ pc' = IF pc = "download" /\ idx < Len(years) THEN "download"
           ELSE IF pc = "download" THEN "ref2019"
           ELSE IF pc = "ref2019" THEN "ref2021"
           ELSE "filter"
  /\ idx' = IF pc = "download" THEN idx + 1 ELSE idx
  /\ UNCHANGED <<abort, world, file, startFile, df_county_data,
                 names_of_counties_2019, names_of_counties_2021, calls, writes>>
  /\ UNCHANGED <<queryVars, labelVars, rankVars>>

\* ced.download raises: the script has no handler and stops
FetchFail ==
  /\ pc \in {"download", "ref2019", "ref2021"}
  /\ pc' = "aborted"
  /\ abort' = "fetch"
  /\ UNCHANGED <<world, file, startFile, idx, df_county_data,
                 names_of_counties_2019, names_of_counties_2021, calls, writes>>
  /\ UNCHANGED <<queryVars, labelVars, rankVars>>

\* lines 87-93 and 103
Ref2019 ==
  /\ pc = "ref2019"
  /\ names_of_counties_2019' = NamesOf(DownloadNames(world, RefYearA))
  /\ calls' = calls + 1
  /\ pc' = "ref2021"
  /\ UNCHANGED <<abort, world, file, startFile, idx, df_county_data,
                 names_of_counties_2021, writes>>
  /\ UNCHANGED <<queryVars, labelVars, rankVars>>

\* lines 95-101 and 104
Ref2021 ==
  /\ pc = "ref2021"
  /\ names_of_counties_2021' = NamesOf(DownloadNames(world, RefYearB))
  /\ calls' = calls + 1
  /\ pc' = "filter"
  /\ UNCHANGED <<abort, world, file, startFile, idx, df_county_data,
                 names_of_counties_2019, writes>>
  /\ UNCHANGED <<queryVars, labelVars, rankVars>>

\* lines 105-109
Filter ==
  /\ pc = "filter"
  /\ df_county_data' =
       FilterStable(df_county_data,
                    names_of_counties_in_both(names_of_counties_2019,
                                              names_of_counties_2021))
  /\ pc' = "sort"
  /\ UNCHANGED <<abort, world, file, startFile, idx,
                 names_of_counties_2019, names_of_counties_2021, calls, writes>>
  /\ UNCHANGED <<queryVars, labelVars, rankVars>>

\* line 114
Sort ==
  /\ pc = "sort"
  /\ df_county_data' = SortRows(df_county_data)
  /\ pc' = "splice"
  /\ UNCHANGED <<abort, world, file, startFile, idx,
                 names_of_counties_2019, names_of_counties_2021, calls, writes>>
  /\ UNCHANGED <<queryVars, labelVars, rankVars>>

\* lines 121-134: apply(splice_wfh_columns, axis=1); a failed assertion stops
\* the script
Splice ==
  /\ pc = "splice"
  /\ df_county_data # <<>>
  /\ IF \A k \in 1..Len(df_county_data) : SpliceAssert(df_county_data[k])
       THEN /\ df_county_data' =
                 [k \in 1..Len(df_county_data) |-> SpliceRow(df_county_data[k])]
            /\ pc' = "columns"
            /\ abort' = abort
       ELSE /\ df_county_data' = df_county_data
            /\ pc' = "aborted"
            /\ abort' = "assert"
  /\ UNCHANGED <<world, file, startFile, idx,
                 names_of_counties_2019, names_of_counties_2021, calls, writes>>
  /\ UNCHANGED <<queryVars, labelVars, rankVars>>

\* line 132 on a dataframe without rows: apply returns a dataframe, not a
\* column, and whether the assignment of it raises depends on the pandas
\* version; both outcomes are kept
SpliceEmpty ==
  /\ pc = "splice"
  /\ df_county_data = <<>>
  /\ \/ /\ pc' = "columns"
        /\ abort' = abort
     \/ /\ pc' = "aborted"
        /\ abort' = "empty"
  /\ UNCHANGED <<world, file, startFile, idx, df_county_data,
                 names_of_counties_2019, names_of_counties_2021, calls, writes>>
  /\ UNCHANGED <<queryVars, labelVars, rankVars>>

\* lines 137-151
Columns ==
  /\ pc = "columns"
  /\ df_county_data' = [k \in 1..Len(df_county_data) |-> OutputRow(df_county_data[k])]
  /\ pc' = "write"
  /\ UNCHANGED <<abort, world, file, startFile, idx,
                 names_of_counties_2019, names_of_counties_2021, calls, writes>>
  /\ UNCHANGED <<queryVars, labelVars, rankVars>>

\* line 153
Write ==
  /\ pc = "write"
  /\ file' = ToCsv(df_county_data)
  /\ writes' = writes + 1
  /\ pc' = "done"
  /\ UNCHANGED <<abort, world, startFile, idx, df_county_data,
                 names_of_counties_2019, names_of_counties_2021, calls>>
  /\ UNCHANGED <<queryVars, labelVars, rankVars>>

\* backend.py line 5, in the process that serves the queries, started after a
\* completed run
LoadTable ==
  /\ pc = "done"
  /\ svc = "down"
  /\ IF file.exists
       THEN /\ df' = ReadCsv(file)
            /\ svc' = "up"
       ELSE /\ df' = df
            /\ svc' = "failed"
  /\ UNCHANGED <<asked, series>>
  /\ UNCHANGED <<builderVars, labelVars, rankVars>>

\* backend.py lines 19-24
GetCensusData ==
  /\ svc = "up"
  /\ \E c \in Counties :
       /\ asked' = c
       /\ series' = get_census_data(df, Split(NameOf(c), ", ")[2], Split(NameOf(c), ", ")[1])
  /\ UNCHANGED <<svc, df>>
  /\ UNCHANGED <<builderVars, labelVars, rankVars>>

Next ==
  \/ Import
  \/ DownloadYear
  \/ FetchFail
  \/ Ref2019
  \/ Ref2021
  \/ Filter
  \/ Sort
  \/ Splice
  \/ SpliceEmpty
  \/ Columns
  \/ Write
  \/ LoadTable
  \/ GetCensusData

Spec == Init /\ [][Next]_vars

(* ------------------------------------------------------------------ *)
(* backend.py: get_unique_census_labels                                *)
(* ------------------------------------------------------------------ *)

\* longest label configuration explored
MaxVars == 4

Labels == {"Total Population", "Total Worked from Home", "Median Household Income"}

InSeq(x, s) == \E k \in 1..Len(s) : s[k] = x

\* dict.fromkeys(values): a key enters the dict at its first occurrence only;
\* list(...) gives the keys in insertion order
RECURSIVE FromKeys(_, _)
FromKeys(values, acc) ==
  IF values = <<>> THEN acc
  ELSE FromKeys(Tail(values),
                IF InSeq(Head(values), acc) THEN acc ELSE Append(acc, Head(values)))

\* a deduplication that keeps the last occurrence of each label
RECURSIVE KeepLast(_)
KeepLast(values) ==
  IF values = <<>> THEN <<>>
  ELSE IF InSeq(Head(values), Tail(values)) THEN KeepLast(Tail(values))
  ELSE <<Head(values)>> \o KeepLast(Tail(values))

\* backend.py lines 33-34; cv is census_vars.values() in insertion order
get_unique_census_labels(cv) == FromKeys(cv, <<>>)

Configs == UNION { [1..n -> Labels] : n \in 0..MaxVars }

InitLabels ==
  /\ pc = "query"
  /\ abort = ""
  /\ world = <<>>
  /\ file = NoFile
  /\ startFile = NoFile
  /\ idx = 1
  /\ df_county_data = <<>>
  /\ names_of_counties_2019 = {}
  /\ names_of_counties_2021 = {}
  /\ calls = 0
  /\ writes = 0
  /\ svc = "up"
  /\ df = <<>>
  /\ asked = 0
  /\ series = <<>>
  /\ census_vars \in Configs
  /\ labels = <<>>
  /\ column = ""
  /\ ranking = [error |-> FALSE, rows |-> <<>>]

GetUniqueCensusLabels ==
  /\ pc = "query"
  /\ labels' = get_unique_census_labels(census_vars)
  /\ pc' = "returned"
  /\ UNCHANGED <<abort, world, file, startFile, idx, df_county_data,
                 names_of_counties_2019, names_of_counties_2021, calls, writes>>
  /\ UNCHANGED <<queryVars, census_vars, rankVars>>

NextLabels == GetUniqueCensusLabels

SpecLabels == InitLabels /\ [][NextLabels]_vars

(* ------------------------------------------------------------------ *)
(* backend.py: get_ranking_df                                          *)
(* ------------------------------------------------------------------ *)

\* counties in the loaded table of the ranking queries
RankCounties == 3

\* the values a cell of the loaded table may hold
RankValues == {0, 1, 3}

RankSlots == (1..RankCounties) \X {RefYearA, RefYearB}

CellVals == {NA} \cup {Some(v) : v \in RankValues}

\* one row of the loaded table, as the builder writes it and read_csv reads it
TableRow(c, y, v) ==
  [STATE_NAME |-> Split(NameOf(c), ", ")[2],
   COUNTY_NAME |-> Split(NameOf(c), ", ")[1],
   YEAR |-> y,
   TotalWorkedFromHome |-> v,
   FIPS |-> ParseInt(StateCode(c) \o CountyCode(c))]

\* the rows of county c, by year; county 1 has a row of a year that is not a
\* reference year
CountyRows(f, c) ==
  (IF <<c, RefYearA>> \in DOMAIN f
     THEN <<TableRow(c, RefYearA, f[<<c, RefYearA>>])>> ELSE <<>>)
  \o (IF <<c, RefYearB>> \in DOMAIN f
        THEN <<TableRow(c, RefYearB, f[<<c, RefYearB>>])>> ELSE <<>>)
  \o (IF c = 1 THEN <<TableRow(c, ACS1_END_YEAR, Some(1))>> ELSE <<>>)

RECURSIVE TableUpTo(_, _)
TableUpTo(f, n) ==
  IF n = 0 THEN <<>> ELSE TableUpTo(f, n - 1) \o CountyRows(f, n)

\* t is a loaded table of the ranking queries: one row at most per county
\* and year
IsRankTable(t) ==
  \E S \in SUBSET RankSlots :
    \E f \in [S -> CellVals] : t = TableUpTo(f, RankCounties)

\* line 44: COUNTY_NAME + ', ' + STATE_NAME
CountyLabel(r) == r.COUNTY_NAME \o <<", ">> \o r.STATE_NAME

\* lines 40-45
RankInput(table) ==
  LET Keep(r) == r.YEAR = RefYearA \/ r.YEAR = RefYearB
      kept == SelectSeq(table, Keep)
  IN  [k \in 1..Len(kept) |->
         [County |-> CountyLabel(kept[k]),
          YEAR |-> kept[k].YEAR,
          value |-> kept[k].TotalWorkedFromHome]]

RECURSIVE SumSeq(_)
SumSeq(s) == IF s = <<>> THEN 0 ELSE Val(Head(s)) + SumSeq(Tail(s))

\* line 48: the cell of pivot_table for one County and one YEAR, the mean of
\* the group's values that are not NA (one value per group in these tables)
PivotCell(rows, county, y) ==
  LET In(r) == r.County = county /\ r.YEAR = y /\ ~IsNa(r.value)
      grp == SelectSeq(rows, In)
      vals == [k \in 1..Len(grp) |-> grp[k].value]
  IN  IF grp = <<>> THEN NA ELSE Some(SumSeq(vals) \div Len(vals))

\* line 48: the index of pivot_table, the groups without a value are dropped
PivotIndex(rows) ==
  { rows[k].County : k \in { j \in 1..Len(rows) : ~IsNa(rows[j].value) } }

\* line 48: the columns of pivot_table
PivotColumns(rows) ==
  { rows[k].YEAR : k \in { j \in 1..Len(rows) : ~IsNa(rows[j].value) } }

NaN == [kind |-> "nan", tenths |-> 0]

PosInf == [kind |-> "inf", tenths |-> 0]

NegInf == [kind |-> "-inf", tenths |-> 0]

Num(t) == [kind |-> "num", tenths |-> t]

\* numerator / denominator rounded to the nearest integer, ties to even:
\* round(1) applied to a value counted in tenths
RoundHalfEven(n, d) ==
  LET q == n \div d
      r == n % d
  IN  IF 2 * r < d THEN q
      ELSE IF 2 * r > d THEN q + 1
      ELSE IF q % 2 = 0 THEN q ELSE q + 1

\* line 49
Change(a, b) == IF IsNa(a) \/ IsNa(b) THEN NA ELSE Some(Val(b) - Val(a))

\* line 50, with a zero denominator
PercentByZero(a, b) ==
  IF Val(b) - Val(a) > 0 THEN PosInf
  ELSE IF Val(b) - Val(a) < 0 THEN NegInf
  ELSE NaN

\* lines 50-51: (df2[2021] - df2[2019]) / df2[2019] * 100, rounded to one
\* decimal, in floating point: x / 0 is inf, -inf or nan
PercentChange(a, b) ==
  IF IsNa(a) \/ IsNa(b) THEN NaN
  ELSE IF Val(a) = 0 THEN PercentByZero(a, b)
  ELSE Num(RoundHalfEven(1000 * (Val(b) - Val(a)), Val(a)))

\* lines 48-51: one row of the pivoted frame
PivotRow(rows, county) ==
  [County |-> county,
   y2019 |-> PivotCell(rows, county, RefYearA),
   y2021 |-> PivotCell(rows, county, RefYearB),
   Change |-> Change(PivotCell(rows, county, RefYearA), PivotCell(rows, county, RefYearB)),
   Percent |-> PercentChange(PivotCell(rows, county, RefYearA),
                             PivotCell(rows, county, RefYearB))]

\* the order of two numbers, infinities included
NumGeq(p, q) ==
  \/ p.kind = "inf"
  \/ q.kind = "-inf"
  \/ p.kind = "num" /\ q.kind = "num" /\ p.tenths >= q.tenths

\* a sort that puts the missing values first
PercentGeqNaFirst(p, q) ==
  IF p.kind = "nan" THEN TRUE
  ELSE IF q.kind = "nan" THEN FALSE
  ELSE NumGeq(p, q)

\* line 52: p may stand before q in sort_values(ascending=False), which puts
\* the missing values last
PercentGeq(p, q) ==
  IF q.kind = "nan" THEN TRUE
  ELSE IF p.kind = "nan" THEN FALSE
  ELSE NumGeq(p, q)

\* line 52: the orders sort_values may give, rows of equal key in any order:
\* a row that may stand before all others, then an order of the others
RECURSIVE SortedOrders(_)
SortedOrders(S) ==
  IF S = {} THEN { <<>> }
  ELSE UNION { { <<m>> \o o : o \in SortedOrders(S \ {m}) } :
               m \in { x \in S : \A y \in S : PercentGeq(x.Percent, y.Percent) } }

\* lines 55-56
WithRank(o) ==
  [k \in 1..Len(o) |->
     [County |-> o[k].County,
      y2019 |-> o[k].y2019,
      y2021 |-> o[k].y2021,
      Change |-> o[k].Change,
      Percent |-> o[k].Percent,
      Rank |-> k]]

\* a dropna that keeps every row
KeepAll(o) == o

\* line 57
DropNa(o) ==
  LET Full(r) == /\ ~IsNa(r.y2019)
                 /\ ~IsNa(r.y2021)
                 /\ ~IsNa(r.Change)
                 /\ r.Percent.kind # "nan"
  IN  SelectSeq(o, Full)

KeyError == [error |-> TRUE, rows |-> <<>>]

Frame(rows) == [error |-> FALSE, rows |-> rows]

\* backend.py lines 36-59: the frames get_ranking_df may return; df2[2021]
\* raises KeyError when the pivot has no such column
get_ranking_df(table) ==
  LET rows == RankInput(table)
      pivot == { PivotRow(rows, c) : c \in PivotIndex(rows) }
  IN  IF {RefYearA, RefYearB} \subseteq PivotColumns(rows)
        THEN { Frame(DropNa(WithRank(o))) : o \in SortedOrders(pivot) }
        ELSE { KeyError }

InitRank ==
  /\ pc = "query"
  /\ abort = ""
  /\ world = <<>>
  /\ file = NoFile
  /\ startFile = NoFile
  /\ idx = 1
  /\ df_county_data = <<>>
  /\ names_of_counties_2019 = {}
  /\ names_of_counties_2021 = {}
  /\ calls = 0
  /\ writes = 0
  /\ svc = "up"
  /\ IsRankTable(df)
  /\ asked = 0
  /\ series = <<>>
  /\ census_vars = <<>>
  /\ labels = <<>>
  /\ column = ""
  /\ ranking = Frame(<<>>)

GetRankingDf ==
  /\ pc = "query"
  /\ column' = "Total Worked from Home"
  /\ ranking' \in get_ranking_df(df)
  /\ pc' = "returned"
  /\ UNCHANGED <<abort, world, file, startFile, idx, df_county_data,
                 names_of_counties_2019, names_of_counties_2021, calls, writes>>
  /\ UNCHANGED <<queryVars, labelVars>>

NextRank == GetRankingDf

SpecRank == InitRank /\ [][NextRank]_vars

(* ------------------------------------------------------------------ *)
(* Properties of the builder run                                       *)
(* ------------------------------------------------------------------ *)

\* the counties the provider lists in both reference years
StableCounties ==
  { c \in Counties : <<c, RefYearA>> \in DOMAIN world /\ <<c, RefYearB>> \in DOMAIN world }

\* the observations of the stable counties
StableSlots == { sl \in DOMAIN world : sl[1] \in StableCounties }

BothFields(sl) == ~IsNa(world[sl].B08006_021E) /\ ~IsNa(world[sl].B08006_017E)

NeitherField(sl) == IsNa(world[sl].B08006_021E) /\ IsNa(world[sl].B08006_017E)

PastMerge == pc \in {"columns", "write", "done"}

\* C4: when the provider holds, for a county of the stable set, a row with
\* both work-from-home fields non-null, the run never gets past the merge
\* step and to_csv is never executed: the file stays what it was.
C4_BothFieldsNeverWritten ==
  (\E sl \in StableSlots : BothFields(sl)) =>
     /\ ~PastMerge
     /\ writes = 0
     /\ file = startFile

C4_Witness ==
  /\ \E sl \in StableSlots : BothFields(sl)
  /\ pc = "aborted"
  /\ abort = "assert"

\* C5, as stated: a stable row with both fields populated, and a stable row
\* with neither field populated, each keep the run from passing the merge step.
C5_Original ==
  (\E sl \in StableSlots : BothFields(sl) \/ NeitherField(sl)) => ~PastMerge

\* the merged value the source columns of an observation call for
MergedOf(sl) ==
  IF ~IsNa(world[sl].B08006_021E) THEN world[sl].B08006_021E
  ELSE world[sl].B08006_017E

\* C5, amended: the merge step aborts the run only for a row with both
\* fields populated; a row with neither field populated passes, and its merged
\* value is NA, while a row with one field populated gets that field's value.
C5_OnlyBothFieldsAbort ==
  /\ abort = "assert" => \E sl \in StableSlots : BothFields(sl)
  /\ pc = "columns" =>
       /\ Len(df_county_data) = Cardinality(StableSlots)
       /\ \A k \in 1..Len(df_county_data) :
            \E sl \in StableSlots :
              /\ df_county_data[k].NAME = NameOf(sl[1])
              /\ df_county_data[k].YEAR = sl[2]
              /\ ~BothFields(sl)
              /\ df_county_data[k].TotalWorkedFromHome = MergedOf(sl)

C5_Witness ==
  /\ pc = "columns"
  /\ \E sl \in StableSlots : NeitherField(sl)
  /\ \E k \in 1..Len(df_county_data) : IsNa(df_county_data[k].TotalWorkedFromHome)

\* the NAME of a persisted row
PersistedName(r) == r.COUNTY_NAME \o <<", ">> \o r.STATE_NAME

\* C6: every row of the table written by the run has the name of a county the
\* provider lists in both 2019 and 2021, so a county missing from either
\* listing has no row for any year.
C6_OnlyStableCountiesPersisted ==
  writes > 0 =>
    \A k \in 1..Len(file.rows) :
      /\ PersistedName(file.rows[k]) \in NamesOf(DownloadNames(world, RefYearA))
      /\ PersistedName(file.rows[k]) \in NamesOf(DownloadNames(world, RefYearB))

C6_Witness ==
  /\ writes > 0
  /\ file.rows # <<>>
  /\ \E sl \in DOMAIN world : sl[1] \notin StableCounties /\ sl[2] \notin {RefYearA, RefYearB}

\* the years the persisted table is to hold for county c
YearsOf(c) == { y \in YearSet : <<c, y>> \in StableSlots }

\* C7: on the table a completed run wrote, get_census_data gives one row for
\* each year the county has in the table, the years strictly ascending.
C7_SeriesAscending ==
  (pc = "done" /\ svc = "up" /\ asked # 0) =>
     /\ \A i, j \in 1..Len(series) : i < j => series[i].YEAR < series[j].YEAR
     /\ { series[k].YEAR : k \in 1..Len(series) } = YearsOf(asked)
     /\ Len(series) = Cardinality(YearsOf(asked))

C7_Witness ==
  /\ pc = "done"
  /\ svc = "up"
  /\ asked # 0
  /\ Len(series) >= 2
  /\ Len(file.rows) > Len(series)

\* C8: a run that a failed provider call ended has written nothing; to_csv
\* runs at most once, and only after the calls for every year and for the two
\* reference years have returned.
C8_NoWriteBeforeAllCalls ==
  /\ abort = "fetch" => writes = 0 /\ file = startFile
  /\ writes <= 1
  /\ writes > 0 => calls = Len(years) + 2
  /\ pc = "write" => calls = Len(years) + 2

C8_Witness ==
  /\ abort = "fetch"
  /\ calls > 0
  /\ df_county_data # <<>>

\* C10: the run has read county_data.csv before its first provider call, and
\* a run started without the file makes no provider call and writes nothing.
C10_TableReadBeforeFirstCall ==
  /\ (calls > 0 /\ svc = "down") => startFile.exists /\ df = ReadCsv(startFile)
  /\ ~startFile.exists => /\ calls = 0
                          /\ writes = 0
                          /\ file = NoFile
                          /\ pc \in {"import", "aborted"}

C10_Witness ==
  /\ ~startFile.exists
  /\ pc = "aborted"
  /\ abort = "import"

(* ------------------------------------------------------------------ *)
(* Properties of get_unique_census_labels                              *)
(* ------------------------------------------------------------------ *)

\* position of the first occurrence of x in s
FirstAt(x, s) == CHOOSE k \in 1..Len(s) : s[k] = x /\ \A j \in 1..(k - 1) : s[j] # x

\* C9: the result holds each configured label once, no other label, and the
\* labels stand in the order of their first occurrence in the configuration.
C9_LabelsUniqueInFirstSeenOrder ==
  pc = "returned" =>
    /\ { labels[k] : k \in 1..Len(labels) } = { census_vars[k] : k \in 1..Len(census_vars) }
    /\ \A i, j \in 1..Len(labels) : i # j => labels[i] # labels[j]
    /\ \A i, j \in 1..Len(labels) :
         i < j => FirstAt(labels[i], census_vars) < FirstAt(labels[j], census_vars)

C9_Witness ==
  /\ pc = "returned"
  /\ Len(labels) >= 2
  /\ Len(labels) < Len(census_vars)
  /\ census_vars[Len(census_vars)] = census_vars[1]

(* ------------------------------------------------------------------ *)
(* Properties of get_ranking_df                                        *)
(* ------------------------------------------------------------------ *)

\* the loaded table has a value for the county and the year
HasValue(county, y) ==
  \E k \in 1..Len(df) :
    /\ CountyLabel(df[k]) = county
    /\ df[k].YEAR = y
    /\ ~IsNa(df[k].TotalWorkedFromHome)

\* C1: no row of the ranking has a 2019 value of zero, nor a percent change
\* that comes from a division by zero.
C1_NoZeroDenominator ==
  pc = "returned" =>
    \A k \in 1..Len(ranking.rows) :
      /\ ranking.rows[k].y2019 # Some(0)
      /\ ranking.rows[k].Percent.kind = "num"

\* C2: a county has a row in the ranking only if the loaded table has a value
\* for it in 2019 and in 2021, and no cell of the ranking is missing.
C2_OnlyCompleteRegionsRanked ==
  pc = "returned" =>
    \A k \in 1..Len(ranking.rows) :
      /\ HasValue(ranking.rows[k].County, RefYearA)
      /\ HasValue(ranking.rows[k].County, RefYearB)
      /\ ~IsNa(ranking.rows[k].y2019)
      /\ ~IsNa(ranking.rows[k].y2021)
      /\ ~IsNa(ranking.rows[k].Change)
      /\ ranking.rows[k].Percent.kind # "nan"

C2_Witness ==
  /\ pc = "returned"
  /\ ranking.rows # <<>>
  /\ \E k \in 1..Len(df) :
       /\ df[k].YEAR = RefYearA
       /\ ~IsNa(df[k].TotalWorkedFromHome)
       /\ ~HasValue(CountyLabel(df[k]), RefYearB)

\* C3: the rows of the ranking stand in non-increasing order of percent
\* change, and the Rank of the k-th row is k.
C3_RanksDenseAndDescending ==
  pc = "returned" =>
    /\ \A k \in 1..Len(ranking.rows) : ranking.rows[k].Rank = k
    /\ \A i, j \in 1..Len(ranking.rows) :
         i < j => /\ ranking.rows[i].Percent.kind # "nan"
                  /\ ranking.rows[j].Percent.kind # "nan"
                  /\ NumGeq(ranking.rows[i].Percent, ranking.rows[j].Percent)

C3_Witness ==
  /\ pc = "returned"
  /\ Len(ranking.rows) >= 2
  /\ ranking.rows[1].Percent # ranking.rows[2].Percent
  /\ \E k \in 1..Len(df) :
       /\ df[k].YEAR = RefYearB
       /\ ~IsNa(df[k].TotalWorkedFromHome)
       /\ ~HasValue(CountyLabel(df[k]), RefYearA)

====
